---------------------------- MODULE Spec2Model ----------------------------
(***************************************************************************)
(* A model of python-dabmot (src/src/mot/__init__.py): the MOT parameter   *)
(* codec (HeaderParameter / DirectoryParameter encode, from_bits, the time *)
(* codecs) and the carousel reassembly generator decode_objects with its   *)
(* Cache, is_complete, decode_directory_object and compile_object.         *)
(*                                                                         *)
(* Bit strings (bitarray) are sequences over {0,1}; byte strings (str) are *)
(* sequences over 0..255.  The code is Python 2: "/" on ints is floor      *)
(* division, dict.keys() is a list snapshot in hash-table order.           *)
(***************************************************************************)
EXTENDS Integers, Sequences, FiniteSets, TLC

VARIABLES
    cache,      \* Cache (a dict): transport_id -> sorted list of datagroups
    directory,  \* Cache.directory: the memoized directory table, or None
    emitted,    \* the objects the generator has yielded so far, in order
    status,     \* "running", or the exception that ended the generator
    pc,         \* "pull": at `for d in data`; "scan": inside `for t in cache.keys()`
    keys,       \* the rest of the cache.keys() snapshot still to examine
    fed,        \* the datagroups pulled from the supplier so far, in order
    burst,      \* the transport ids yielded since the last datagroup was pulled
    codec,      \* the parameter codec's input/output (encode, then from_bits)
    object      \* a MotObject in the caller's hands

vars == <<cache, directory, emitted, status, pc, keys, fed, burst, codec, object>>

-----------------------------------------------------------------------------
(* Bit and byte primitives (bitarray, msc.int_to_bitarray).                *)

Min(a, b) == IF a < b THEN a ELSE b

RECURSIVE Pow2(_)
Pow2(n) == IF n <= 0 THEN 1 ELSE 2 * Pow2(n - 1)

\* msc.int_to_bitarray(i, n): i as n bits, most significant first.
RECURSIVE int_to_bitarray(_, _)
int_to_bitarray(i, n) ==
    IF n <= 0 THEN <<>> ELSE Append(int_to_bitarray(i \div 2, n - 1), i % 2)

\* bits[a:b]: a Python slice, clipped to the length of bits.
Slice(bits, a, b) == SubSeq(bits, Min(a, Len(bits)) + 1, Min(b, Len(bits)))

\* int(bits.to01(), 2) of a non-empty bit string (int('', 2) raises ValueError:
\* every caller tests for the empty string first).
RECURSIVE bitarray_to_int(_)
bitarray_to_int(bits) ==
    IF Len(bits) = 0 THEN 0
    ELSE 2 * bitarray_to_int(SubSeq(bits, 1, Len(bits) - 1)) + bits[Len(bits)]

\* bitarray.frombytes / fromstring: 8 bits per byte, most significant first.
FromBytes(bytes) ==
    [k \in 1..(8 * Len(bytes)) |->
        (bytes[((k - 1) \div 8) + 1] \div Pow2(7 - ((k - 1) % 8))) % 2]

\* len(bits.tobytes()): the byte length, a partial last byte counted.
ByteLen(bits) == (Len(bits) + 7) \div 8

\* bitarray.tobytes / tostring: the last byte padded with zero bits.
ToBytes(bits) ==
    [j \in 1..ByteLen(bits) |->
        LET chunk == Slice(bits, 8 * (j - 1), 8 * j)
        IN  bitarray_to_int(chunk) * Pow2(8 - Len(chunk))]

\* bits.any()
AnyBit(bits) == \E k \in 1..Len(bits) : bits[k] = 1


-----------------------------------------------------------------------------
(* Time codecs.  A timepoint is <<year, month, day, hour, minute, second,  *)
(* microsecond>> (a naive or UTC datetime) or <<>> for None; an offset     *)
(* (timedelta) is its total number of seconds.                             *)

None == <<>>

\* The result of a call that may raise: the bits it returns, or raised.
Returned(bits) == [raised |-> FALSE, bits |-> bits]
RaisedBits == [raised |-> TRUE, bits |-> <<>>]

\* The MJD field of encode_absolute_time (lines 130-135), all in Python 2
\* integer arithmetic: (hour - 12) / 24 is -1 before noon and 0 from noon on,
\* minute / 1440 and second / 86400 are 0, and int(jd - 2400000.5) truncates.
mjd_of(timepoint) ==
    LET year  == timepoint[1]
        month == timepoint[2]
        day   == timepoint[3]
        hour  == timepoint[4]
        a   == (14 - month) \div 12
        y   == year + 4800 - a
        m   == month + (12 * a) - 3
        jdn == day + ((153 * m) + 2) \div 5 + (365 * y) + (y \div 4)
                 - (y \div 100) + (y \div 400) - 32045
        jd  == jdn + ((hour - 12) \div 24) + (timepoint[5] \div 1440)
                 + (timepoint[6] \div 86400)
    IN  jd - 2400001

encode_absolute_time(timepoint) ==
    IF timepoint = None THEN int_to_bitarray(0, 32)
    ELSE <<1>> \o int_to_bitarray(mjd_of(timepoint), 17) \o int_to_bitarray(0, 2)
         \o (IF timepoint[6] > 0
             THEN <<1>> \o int_to_bitarray(timepoint[4], 5)
                        \o int_to_bitarray(timepoint[5], 6)
                        \o int_to_bitarray(timepoint[6], 6)
                        \o int_to_bitarray(timepoint[7] \div 1000, 10)
             ELSE <<0>> \o int_to_bitarray(timepoint[4], 5)
                        \o int_to_bitarray(timepoint[5], 6))

\* mjd_to_date: datetime.fromtimestamp((mjd - 40587) * 86400), read in UTC:
\* the civil date of that many days after 1970-01-01, at 00:00:00.
mjd_to_date(mjd) ==
    LET z   == (mjd - 40587) + 719468
        era == z \div 146097
        doe == z - era * 146097
        yoe == (doe - (doe \div 1460) + (doe \div 36524) - (doe \div 146096)) \div 365
        doy == doe - (365 * yoe + (yoe \div 4) - (yoe \div 100))
        mp  == (5 * doy + 2) \div 153
        d   == doy - ((153 * mp + 2) \div 5) + 1
        m   == IF mp < 10 THEN mp + 3 ELSE mp - 9
        y   == yoe + era * 400 + (IF m <= 2 THEN 1 ELSE 0)
    IN  <<y, m, d, 0, 0, 0, 0>>

\* decode_absolute_time: every timepoint.replace(...) result is discarded, so
\* what is returned is datetime.combine(date, time()): midnight of the MJD day.
decode_absolute_time(bits) ==
    IF ~AnyBit(bits) THEN None
    ELSE mjd_to_date(bitarray_to_int(Slice(bits, 1, 18)))

\* encode_relative_time: offset.days and offset.seconds are the two fields of
\* the timedelta; the branches compare the whole offset.
encode_relative_time(offset) ==
    LET days    == offset \div 86400
        seconds == offset % 86400
    IN  IF offset < 127 * 60
        THEN Returned(int_to_bitarray(0, 2)
                      \o int_to_bitarray((seconds \div 60) \div 2, 6))
        ELSE IF offset < 1891 * 60
        THEN Returned(int_to_bitarray(1, 2)
                      \o int_to_bitarray((seconds \div 60) \div 30, 6))
        ELSE IF offset < 127 * 3600
        THEN Returned(int_to_bitarray(2, 2)
                      \o int_to_bitarray((seconds \div 3600 + days * 24) \div 2, 6))
        ELSE IF offset < 64 * 24 * 3600
        THEN Returned(int_to_bitarray(2, 3) \o int_to_bitarray(6, days))
        ELSE RaisedBits

-----------------------------------------------------------------------------
(* Parameters.  A parameter is [kind, num, seq]: kind is the class name,   *)
(* num its integer field (charset, type, priority, offset in seconds,      *)
(* permit) and seq its byte-string or timepoint field.                     *)

Param(kind, num, seq) == [kind |-> kind, num |-> num, seq |-> seq]
NoParam == Param("None", 0, <<>>)

HeaderKinds == {"ContentName", "MimeType", "RelativeExpiration",
                "AbsoluteExpiration", "Compression", "Priority"}
DirectoryKinds == {"DirectoryParameter", "DefaultPermitOutdatedVersions",
                   "DefaultRelativeExpiration", "DefaultAbsoluteExpiration",
                   "SortedHeaderInformation"}

\* The id each class passes to HeaderParameter.__init__ / DirectoryParameter.__init__.
ParamId(p) ==
    CASE p.kind = "ContentName" -> 12
      [] p.kind = "MimeType" -> 16
      [] p.kind = "RelativeExpiration" -> 4
      [] p.kind = "AbsoluteExpiration" -> 4
      [] p.kind = "Compression" -> 17
      [] p.kind = "Priority" -> 10
      [] p.kind = "DefaultPermitOutdatedVersions" -> 1
      [] p.kind = "DefaultRelativeExpiration" -> 9
      [] p.kind = "DefaultAbsoluteExpiration" -> 9
      [] p.kind = "SortedHeaderInformation" -> 0
      [] OTHER -> p.num

\* encode_data of each class.
encode_data(p) ==
    CASE p.kind = "ContentName" ->
            Returned(int_to_bitarray(p.num, 4) \o int_to_bitarray(0, 4) \o FromBytes(p.seq))
      [] p.kind = "MimeType" -> Returned(FromBytes(p.seq))
      [] p.kind = "RelativeExpiration" -> encode_relative_time(p.num)
      [] p.kind = "AbsoluteExpiration" -> Returned(encode_absolute_time(p.seq))
      [] p.kind = "Compression" -> Returned(int_to_bitarray(p.num, 8))
      [] p.kind = "Priority" -> Returned(int_to_bitarray(p.num, 8))
      [] p.kind = "DefaultPermitOutdatedVersions" ->
            Returned(FromBytes(IF p.num # 0 THEN <<1>> ELSE <<0>>))
      [] p.kind = "DefaultRelativeExpiration" -> encode_relative_time(p.num)
      [] p.kind = "DefaultAbsoluteExpiration" -> Returned(encode_absolute_time(p.seq))
      [] OTHER -> Returned(<<>>)

\* The preamble HeaderParameter.encode writes for a payload of data_length
\* bytes (lines 232-251).  No branch takes a data_length above 32770: nothing
\* is written and nothing is raised.
HeaderPreamble(id, data_length) ==
    IF data_length = 0 THEN int_to_bitarray(0, 2) \o int_to_bitarray(id, 6)
    ELSE IF data_length = 1 THEN int_to_bitarray(1, 2) \o int_to_bitarray(id, 6)
    ELSE IF data_length = 4 THEN int_to_bitarray(2, 2) \o int_to_bitarray(id, 6)
    ELSE IF data_length <= 127
    THEN int_to_bitarray(3, 2) \o int_to_bitarray(id, 6) \o <<0>>
         \o int_to_bitarray(data_length, 7)
    ELSE IF data_length <= 32770
    THEN int_to_bitarray(3, 2) \o int_to_bitarray(id, 6) \o <<1>>
         \o int_to_bitarray(data_length, 15)
    ELSE <<>>

\* The preamble DirectoryParameter.encode writes (lines 449-467): PLI 2 for
\* every data_length from 2 to 4.
DirectoryPreamble(id, data_length) ==
    IF data_length = 0 THEN int_to_bitarray(0, 2) \o int_to_bitarray(id, 6)
    ELSE IF data_length = 1 THEN int_to_bitarray(1, 2) \o int_to_bitarray(id, 6)
    ELSE IF data_length <= 4 THEN int_to_bitarray(2, 2) \o int_to_bitarray(id, 6)
    ELSE IF data_length <= 127
    THEN int_to_bitarray(3, 2) \o int_to_bitarray(id, 6) \o <<0>>
         \o int_to_bitarray(data_length, 7)
    ELSE IF data_length <= 32770
    THEN int_to_bitarray(3, 2) \o int_to_bitarray(id, 6) \o <<1>>
         \o int_to_bitarray(data_length, 15)
    ELSE <<>>

\* HeaderParameter.encode / DirectoryParameter.encode: preamble, then the data.
encode(p) ==
    LET data == encode_data(p)
        data_length == ByteLen(data.bits)
    IN  IF data.raised THEN RaisedBits
        ELSE Returned((IF p.kind \in HeaderKinds
                       THEN HeaderPreamble(ParamId(p), data_length)
                       ELSE DirectoryPreamble(ParamId(p), data_length))
                      \o data.bits)

-----------------------------------------------------------------------------
(* HeaderParameter.from_bits and the registered decoders (lines 558-562).  *)

\* The result of a decoder: the parameter, or raised.
Decoded(p) == [raised |-> FALSE, param |-> p]
RaisedParam == [raised |-> TRUE, param |-> NoParam]

\* HeaderParameter.decoders.has_key(param_id)
DecoderIds == {12, 16, 4, 17, 10}

\* decode_relative_time: raises ValueError for every input.
decode_relative_time(data) == RaisedParam

\* ExpirationParameter.decode_data
ExpirationParameter_decode_data(data) ==
    IF Len(data) \div 8 = 1 THEN decode_relative_time(data)
    ELSE IF Len(data) \div 8 \in {4, 6}
    THEN Decoded(Param("AbsoluteExpiration", 0, decode_absolute_time(data)))
    ELSE RaisedParam

\* HeaderParameter.decoders[param_id](data).  int('', 2) raises on an empty
\* field; Priority.__init__ asserts 0 <= priority <= 255.
decoder(param_id, data) ==
    CASE param_id = 12 ->
            IF Len(Slice(data, 0, 4)) = 0 THEN RaisedParam
            ELSE Decoded(Param("ContentName", bitarray_to_int(Slice(data, 0, 4)),
                               ToBytes(Slice(data, 8, Len(data)))))
      [] param_id = 16 -> Decoded(Param("MimeType", 0, ToBytes(data)))
      [] param_id = 4 -> ExpirationParameter_decode_data(data)
      [] param_id = 17 ->
            IF Len(data) = 0 THEN RaisedParam
            ELSE Decoded(Param("Compression", bitarray_to_int(data), <<>>))
      [] param_id = 10 ->
            IF Len(data) = 0 \/ bitarray_to_int(data) > 255 THEN RaisedParam
            ELSE Decoded(Param("Priority", bitarray_to_int(data), <<>>))
      [] OTHER -> RaisedParam

\* What from_bits does: returns (param, size), raises UnknownHeaderParameter
\* (id, raw span of size bytes), or raises another error.
Parsed(p, size) == [tag |-> "ok", param |-> p, size |-> size, id |-> ParamId(p)]
Unknown(id, size) == [tag |-> "unknown", param |-> NoParam, size |-> size, id |-> id]
ParseError == [tag |-> "error", param |-> NoParam, size |-> 0, id |-> 0]

\* Lines 266-281: the Ext flag, the length field and the two lengths.
Ext(bits, i, PLI) == PLI = 3 /\ bits[i + 9] = 1
LengthField(bits, i, PLI) ==
    IF Ext(bits, i, PLI) THEN Slice(bits, i + 9, i + 24) ELSE Slice(bits, i + 9, i + 16)
DataStart(bits, i, PLI) == IF PLI = 3 THEN (IF Ext(bits, i, PLI) THEN 3 ELSE 2) ELSE 1
DataLength(bits, i, PLI) ==
    CASE PLI = 0 -> 0
      [] PLI = 1 -> 1
      [] PLI = 2 -> 4
      [] OTHER -> bitarray_to_int(LengthField(bits, i, PLI))

\* Lines 289-297: what the decoder returned becomes (param, size) or the error.
FromBitsResult(r, size) == IF r.raised THEN ParseError ELSE Parsed(r.param, size)

\* Lines 282-297, with the data field sliced out.
FromBitsData(bits, i, param_id, data_start, data_length, data) ==
    IF data_length # Len(data) \div 8
    THEN ParseError                          \* signalled length not there
    ELSE IF param_id \notin DecoderIds
    THEN Unknown(param_id,
                 Len(Slice(bits, i, i + (data_start * 8) + (data_length * 8))) \div 8)
    ELSE FromBitsResult(decoder(param_id, data), data_start + data_length)

\* Lines 266-282, with PLI and param_id read.
FromBitsLength(bits, i, PLI, param_id, data_start, data_length) ==
    FromBitsData(bits, i, param_id, data_start, data_length,
                 Slice(bits, i + (data_start * 8),
                       i + (data_start * 8) + (data_length * 8)))

FromBitsPreamble(bits, i, PLI, param_id) ==
    IF PLI = 3 /\ i + 8 >= Len(bits)
    THEN ParseError                          \* bits[i+8]: IndexError
    ELSE IF PLI = 3 /\ Len(LengthField(bits, i, PLI)) = 0
    THEN ParseError                          \* int('', 2)
    ELSE FromBitsLength(bits, i, PLI, param_id,
                        DataStart(bits, i, PLI), DataLength(bits, i, PLI))

from_bits(bits, i) ==
    IF Len(Slice(bits, i, i + 2)) = 0 \/ Len(Slice(bits, i + 2, i + 8)) = 0
    THEN ParseError                          \* int('', 2)
    ELSE FromBitsPreamble(bits, i, bitarray_to_int(Slice(bits, i, i + 2)),
                          bitarray_to_int(Slice(bits, i + 2, i + 8)))

-----------------------------------------------------------------------------
(* The cache and is_complete.  A datagroup is [tid, type, seg, last, data] *)
(* (get_transport_id(), get_type(), segment_index, last, get_data()).      *)

Datagroup(tid, type, seg, last, data) ==
    [tid |-> tid, type |-> type, seg |-> seg, last |-> last, data |-> data]

\* cache.keys() (Python 2: a list, in hash-table order).  The keys are ints
\* that hash to themselves; with fewer than six keys of distinct low three
\* bits the dict keeps its 8 slots and lists key k at slot k mod 8.
RECURSIVE KeyOrder(_)
KeyOrder(S) ==
    IF S = {} THEN <<>>
    ELSE LET k == CHOOSE x \in S : \A y \in S : x % 8 <= y % 8
         IN  <<k>> \o KeyOrder(S \ {k})

cache_keys(c) == KeyOrder(DOMAIN c)

\* The tail of check_type_complete (lines 579-589) on the list it selected.
RunComplete(datagroups) ==
    /\ Len(datagroups) # 0
    /\ datagroups[1].seg = 0
    /\ datagroups[Len(datagroups)].last
    /\ \A j \in 2..Len(datagroups) : datagroups[j].seg = datagroups[j - 1].seg + 1

\* The first list, in key order, whose first datagroup has the type (lines
\* 573-577), or [] when there is none.
RECURSIVE FirstOfType(_, _, _)
FirstOfType(ks, type, c) ==
    IF ks = <<>> THEN <<>>
    ELSE IF c[Head(ks)][1].type = type THEN c[Head(ks)]
    ELSE FirstOfType(Tail(ks), type, c)

\* check_type_complete(type, transport_id) inside is_complete(t, cache).
\* given: the call passes t as transport_id (it is None otherwise);
\* `if transport_id:` is false for None and also for transport id 0.
check_type_complete(type, given, t, c) ==
    LET datagroups ==
            IF given /\ t # 0
            THEN SelectSeq(c[t], LAMBDA x : x.type = type)
            ELSE FirstOfType(cache_keys(c), type, c)
    IN  RunComplete(datagroups)

is_complete(t, c) ==
    IF ~check_type_complete(4, TRUE, t, c) THEN FALSE
    ELSE IF ~check_type_complete(3, TRUE, t, c)
         THEN check_type_complete(6, FALSE, t, c)
         ELSE TRUE

-----------------------------------------------------------------------------
(* decode_directory_object and compile_object.                             *)

\* The parameter loop of decode_directory_object (lines 641-651): any
\* exception of from_bits, UnknownHeaderParameter included, ends the list.
\* Returns the parameters and the position reached.
RECURSIVE DirectoryParams(_, _, _, _)
DirectoryParamsStep(bits, i, end, params, r) ==
    IF r.tag = "ok"
    THEN DirectoryParams(bits, i + (r.size * 8), end, Append(params, r.param))
    ELSE [params |-> params, i |-> end]

DirectoryParams(bits, i, end, params) ==
    IF ~(i < end) THEN [params |-> params, i |-> i]
    ELSE DirectoryParamsStep(bits, i, end, params, from_bits(bits, i))

\* The entry loop of decode_directory_object (lines 628-652), from position i
\* with the table built so far.  int('', 2) on a field past the end raises.
RECURSIVE DirectoryEntries(_, _, _)
DirectoryEntry(bits, headers, transport_id, content_type, ps) ==
    DirectoryEntries(bits, ps.i,
        [t \in DOMAIN headers \cup {transport_id} |->
            IF t = transport_id
            THEN [content_type |-> content_type, params |-> ps.params]
            ELSE headers[t]])

DirectoryEntries(bits, i, headers) ==
    IF ~(i < Len(bits)) THEN [raised |-> FALSE, headers |-> headers]
    ELSE IF Len(Slice(bits, i + 16, i + 44)) = 0 \/ Len(Slice(bits, i + 44, i + 57)) = 0
            \/ Len(Slice(bits, i + 57, i + 63)) = 0 \/ Len(Slice(bits, i + 63, i + 72)) = 0
    THEN [raised |-> TRUE, headers |-> headers]
    ELSE DirectoryEntry(bits, headers,
            bitarray_to_int(Slice(bits, i, i + 16)),
            <<bitarray_to_int(Slice(bits, i + 57, i + 63)),
              bitarray_to_int(Slice(bits, i + 63, i + 72))>>,
            DirectoryParams(bits, i + 72,
                i + 16 + (bitarray_to_int(Slice(bits, i + 44, i + 57)) * 8), <<>>))

\* The directory header (lines 612-624) read from the bits.
DirectoryHeader(bits) ==
    IF Len(bits) <= 88 THEN [raised |-> TRUE, headers |-> <<>>]
    ELSE DirectoryEntries(bits, 104 + (bitarray_to_int(Slice(bits, 88, 104)) * 8), <<>>)

\* decode_directory_object(data): the table transport_id -> (content_type,
\* parameters), or raised (a directory header field past the end of the data).
decode_directory_object(data) == DirectoryHeader(FromBytes(data))

\* The `while i < len(bits)` loop of compile_object (lines 678-687).
RECURSIVE HeaderParams(_, _, _)
HeaderParamsStep(bits, i, params, r) ==
    IF r.tag = "ok"
    THEN HeaderParams(bits, i + (r.size * 8), Append(params, r.param))
    ELSE IF r.tag = "unknown" /\ r.size # 0
    THEN HeaderParams(bits, i + (r.size * 8), params)
    ELSE [raised |-> TRUE, params |-> params]

HeaderParams(bits, i, params) ==
    IF ~(i < Len(bits)) THEN [raised |-> FALSE, params |-> params]
    ELSE HeaderParamsStep(bits, i, params, from_bits(bits, i))

\* The loop over the type-3 datagroups (lines 664-690): each datagroup's data
\* is added to header and the whole header so far is parsed again, its
\* parameters appended to the one params list.
RECURSIVE CompileHeader(_, _, _, _)
CompileHeaderParsed(hdrs, h, ct, ps) ==
    IF ps.raised
    THEN [raised |-> TRUE, header |-> h, params |-> ps.params, content_type |-> ct]
    ELSE CompileHeader(Tail(hdrs), h, ps.params, ct)

CompileHeaderBits(hdrs, h, bits, params, content_type) ==
    IF Len(Slice(bits, 41, 47)) = 0 \/ Len(Slice(bits, 47, 56)) = 0
    THEN [raised |-> TRUE, header |-> h, params |-> params,
          content_type |-> content_type]
    ELSE CompileHeaderParsed(hdrs, h,
            <<bitarray_to_int(Slice(bits, 41, 47)), bitarray_to_int(Slice(bits, 47, 56))>>,
            HeaderParams(bits, 56, params))

CompileHeaderSegment(hdrs, h, params, content_type) ==
    CompileHeaderBits(hdrs, h, FromBytes(h), params, content_type)

CompileHeader(hdrs, header, params, content_type) ==
    IF hdrs = <<>>
    THEN [raised |-> FALSE, header |-> header, params |-> params,
          content_type |-> content_type]
    ELSE CompileHeaderSegment(hdrs, header \o Head(hdrs).data, params, content_type)

\* Joined last datagroup first.
RECURSIVE ConcatDataReversed(_)
ConcatDataReversed(datagroups) ==
    IF datagroups = <<>> THEN <<>>
    ELSE ConcatDataReversed(Tail(datagroups)) \o Head(datagroups).data

\* x += datagroup.get_data() over a list of datagroups (lines 699-700, 711-712).
RECURSIVE ConcatData(_)
ConcatData(datagroups) ==
    IF datagroups = <<>> THEN <<>>
    ELSE Head(datagroups).data \o ConcatData(Tail(datagroups))

\* directory += datagroup.get_data() over the lists that start with a type-6
\* datagroup, in key order (lines 696-700).
RECURSIVE DirectoryData(_, _)
DirectoryData(ks, c) ==
    IF ks = <<>> THEN <<>>
    ELSE (IF c[Head(ks)][1].type = 6 THEN ConcatData(c[Head(ks)]) ELSE <<>>)
         \o DirectoryData(Tail(ks), c)

\* Cache.directory: None, or the table decode_directory_object returned.
NoDirectory == [parsed |-> FALSE, headers |-> <<>>]
Directory(headers) == [parsed |-> TRUE, headers |-> headers]

\* `not cache.directory`: None or an empty table.
DirectoryFalsy(dir) == ~dir.parsed \/ DOMAIN dir.headers = {}

\* MotObject._parameters after add_parameter of each of params in turn: one
\* parameter per class name, the last one added.
ParameterDict(params) ==
    {params[j] : j \in {j \in 1..Len(params) :
                        \A l \in (j + 1)..Len(params) : params[l].kind # params[j].kind}}

MotObject(params, body, content_type, transport_id) ==
    [transport_id |-> transport_id, type |-> content_type, body |-> body,
     parameters |-> ParameterDict(params)]

NoObject == [transport_id |-> 0, type |-> <<0, 0>>, body |-> <<>>, parameters |-> {}]

\* compile_object(transport_id, cache): the object and the cache without the
\* entry, or the exception raised (the cache entry is then still there).  The
\* directory memo is kept in both cases once it is assigned.
CompileRaise(e, c, dir) ==
    [raised |-> TRUE, error |-> e, object |-> NoObject, cache |-> c, directory |-> dir]

\* Lines 709-726: body, name, object, cache.pop.
CompileBody(transport_id, c, dir, params, content_type) ==
    IF \A j \in 1..Len(params) : params[j].kind # "ContentName"
    THEN CompileRaise("MissingName", c, dir)
    ELSE [raised |-> FALSE, error |-> "",
          object |-> MotObject(params,
                               ConcatData(SelectSeq(c[transport_id], LAMBDA x : x.type = 4)),
                               content_type, transport_id),
          cache |-> [k \in DOMAIN c \ {transport_id} |-> c[k]],
          directory |-> dir]

\* Lines 704-707: cache.directory[transport_id].
CompileLookup(transport_id, c, dir) ==
    IF transport_id \notin DOMAIN dir.headers THEN CompileRaise("KeyError", c, dir)
    ELSE CompileBody(transport_id, c, dir, dir.headers[transport_id].params,
                     dir.headers[transport_id].content_type)

\* Lines 695-702: the directory is decoded when cache.directory is falsy;
\* dec is what decode_directory_object does on the directory data.
CompileDirectory(transport_id, c, dir, dec) ==
    IF ~DirectoryFalsy(dir) THEN CompileLookup(transport_id, c, dir)
    ELSE IF dec.raised THEN CompileRaise("DirectoryError", c, dir)
    ELSE CompileLookup(transport_id, c, Directory(dec.headers))

\* Lines 688-693, with hdr the outcome of the header loop.
CompileParsed(transport_id, c, dir, hdr) ==
    IF hdr.raised THEN CompileRaise("HeaderError", c, dir)
    ELSE IF Len(hdr.header) # 0
    THEN CompileBody(transport_id, c, dir, hdr.params, hdr.content_type)
    ELSE CompileDirectory(transport_id, c, dir,
                          decode_directory_object(DirectoryData(cache_keys(c), c)))

compile_object(transport_id, c, dir) ==
    CompileParsed(transport_id, c, dir,
                  CompileHeader(SelectSeq(c[transport_id], LAMBDA x : x.type = 3),
                                <<>>, <<>>, <<0, 0>>))

-----------------------------------------------------------------------------
(* The datagroups the supplier may deliver.                                *)

\* A Header Core as compile_object and decode_directory_object read it:
\* 28-bit body size, 13-bit header size, 6-bit type, 9-bit subtype.
HeaderCore(body_size, header_size, type, subtype) ==
    int_to_bitarray(body_size, 28) \o int_to_bitarray(header_size, 13)
    \o int_to_bitarray(type, 6) \o int_to_bitarray(subtype, 9)

RECURSIVE EncodeAll(_)
EncodeAll(params) ==
    IF params = <<>> THEN <<>>
    ELSE encode(Head(params)).bits \o EncodeAll(Tail(params))

\* The bits of a header: the core, then the encoded parameters.
HeaderBits(body_size, type, subtype, params) ==
    LET pbits == EncodeAll(params)
    IN  HeaderCore(body_size, 7 + ByteLen(pbits), type, subtype) \o pbits

\* A directory: the 13-byte directory header as decode_directory_object reads
\* it (2 bits, 30-bit size, 16-bit object count, 24-bit period, 3 bits,
\* 13-bit segment size, 16-bit extension length: no extension), then for each
\* entry the 16-bit transport id and the object's header.
RECURSIVE DirectoryEntryBits(_)
DirectoryEntryBits(entries) ==
    IF entries = <<>> THEN <<>>
    ELSE int_to_bitarray(Head(entries).tid, 16)
         \o HeaderBits(1, Head(entries).type[1], Head(entries).type[2], Head(entries).params)
         \o DirectoryEntryBits(Tail(entries))

DirectoryBits(entries) ==
    LET ebits == DirectoryEntryBits(entries)
    IN  <<0, 0>> \o int_to_bitarray(13 + ByteLen(ebits), 30)
        \o int_to_bitarray(Len(entries), 16) \o int_to_bitarray(0, 24)
        \o int_to_bitarray(0, 3) \o int_to_bitarray(0, 13) \o int_to_bitarray(0, 16)
        \o ebits

NameA == Param("ContentName", 4, <<65>>)
NameB == Param("ContentName", 4, <<66>>)
Gzip  == Param("Compression", 1, <<>>)
Mime  == Param("MimeType", 0, <<120>>)

HeaderA      == ToBytes(HeaderBits(2, 2, 1, <<NameA, Gzip>>))
HeaderNoName == ToBytes(HeaderBits(1, 2, 3, <<Mime>>))
\* A ContentName preamble signalling 5 bytes of data with only 1 there.
HeaderBad    == ToBytes(HeaderCore(1, 10, 2, 3)) \o <<204, 5, 64>>
DirectoryAB  == ToBytes(DirectoryBits(<<[tid |-> 9, type |-> <<2, 3>>, params |-> <<NameB>>],
                                        [tid |-> 2, type |-> <<2, 1>>, params |-> <<NameA, Gzip>>]>>))

H2  == Datagroup(2, 3, 0, TRUE, HeaderA)
B2a == Datagroup(2, 4, 0, FALSE, <<16>>)
B2b == Datagroup(2, 4, 1, TRUE, <<17>>)
H0  == Datagroup(0, 3, 0, TRUE, HeaderA)
B0  == Datagroup(0, 4, 0, TRUE, <<18>>)
B9  == Datagroup(9, 4, 0, TRUE, <<19>>)
H9n == Datagroup(9, 3, 0, TRUE, HeaderNoName)
H9x == Datagroup(9, 3, 0, TRUE, HeaderBad)
D4  == Datagroup(4, 6, 0, TRUE, DirectoryAB)

Universe == {H2, B2a, B2b, H0, B0, B9, H9n, H9x, D4}

\* The number of datagroups the supplier delivers in one run.
MaxFeed == 4

-----------------------------------------------------------------------------
(* decode_objects.                                                         *)

\* sorted(items, key=lambda x: (x.get_type(), x.segment_index)): stable.
KeyLeq(x, y) == x.type < y.type \/ (x.type = y.type /\ x.seg <= y.seg)

RECURSIVE InsertSorted(_, _)
InsertSorted(sortedItems, x) ==
    IF sortedItems = <<>> THEN <<x>>
    ELSE IF KeyLeq(Head(sortedItems), x)
         THEN <<Head(sortedItems)>> \o InsertSorted(Tail(sortedItems), x)
         ELSE <<x>> \o sortedItems

RECURSIVE sorted(_)
sorted(items) ==
    IF items = <<>> THEN <<>>
    ELSE InsertSorted(sorted(SubSeq(items, 1, Len(items) - 1)), items[Len(items)])

\* Lines 751-754: the cache after datagroup d is stored.
Store(c, d) ==
    LET items  == IF d.tid \in DOMAIN c THEN c[d.tid] ELSE <<>>
        items2 == IF \E j \in 1..Len(items) : items[j] = d THEN items
                  ELSE Append(items, d)
    IN  [k \in DOMAIN c \cup {d.tid} |-> IF k = d.tid THEN sorted(items2) ELSE c[k]]

NoCodec == [stage |-> "none", param |-> NoParam, len |-> 0, bits |-> <<>>,
            raised |-> FALSE, out |-> ParseError, offset |-> 0, timepoint |-> <<>>]

Init ==
    /\ cache = <<>>
    /\ directory = NoDirectory
    /\ emitted = <<>>
    /\ status = "running"
    /\ pc = "pull"
    /\ keys = <<>>
    /\ fed = <<>>
    /\ burst = <<>>
    /\ object = NoObject
    /\ codec = NoCodec

\* `for d in data` pulls d (line 749); d is stored (lines 751-754) and the
\* keys to examine are listed (line 757).
Ingest(d) ==
    /\ pc = "pull"
    /\ status = "running"
    /\ Len(fed) < MaxFeed
    /\ cache' = Store(cache, d)
    /\ keys' = cache_keys(cache')
    /\ burst' = <<>>
    /\ fed' = Append(fed, d)
    /\ pc' = "scan"
    /\ UNCHANGED <<directory, emitted, status, codec, object>>

AfterKey == IF Tail(keys) = <<>> THEN "pull" ELSE "scan"

\* Line 758 is false for the next key t.
ExamineSkip ==
    /\ pc = "scan"
    /\ ~is_complete(Head(keys), cache)
    /\ keys' = Tail(keys)
    /\ pc' = AfterKey
    /\ UNCHANGED <<cache, directory, emitted, status, fed, burst, codec, object>>

\* Lines 758-761: t is complete, compile_object returns and the object is yielded.
ExamineYield ==
    /\ pc = "scan"
    /\ is_complete(Head(keys), cache)
    /\ LET r == compile_object(Head(keys), cache, directory)
       IN  /\ ~r.raised
           /\ emitted' = Append(emitted, r.object)
           /\ cache' = r.cache
           /\ directory' = r.directory
    /\ burst' = Append(burst, Head(keys))
    /\ keys' = Tail(keys)
    /\ pc' = AfterKey
    /\ UNCHANGED <<status, fed, codec, object>>

\* Lines 758-760: t is complete and compile_object raises; the exception
\* leaves the generator, which is finished from then on.
ExamineRaise ==
    /\ pc = "scan"
    /\ is_complete(Head(keys), cache)
    /\ LET r == compile_object(Head(keys), cache, directory)
       IN  /\ r.raised
           /\ status' = r.error
           /\ directory' = r.directory
    /\ pc' = "raised"
    /\ UNCHANGED <<cache, emitted, keys, fed, burst, codec, object>>

\* The consumer asks the finished generator for the next object: StopIteration.
PullAfterRaise ==
    /\ pc = "raised"
    /\ pc' = "stopped"
    /\ UNCHANGED <<cache, directory, emitted, status, keys, fed, burst, codec, object>>

Next ==
    \/ \E d \in Universe : Ingest(d)
    \/ ExamineSkip
    \/ ExamineYield
    \/ ExamineRaise
    \/ PullAfterRaise

Spec == Init /\ [][Next]_vars

-----------------------------------------------------------------------------
(* A carousel whose headers come in several segments and carry a parameter *)
(* the decoder registry does not know.                                     *)

NameC  == Param("ContentName", 4, <<67>>)
\* Encoded as 41 01: id 1 has no entry in HeaderParameter.decoders.
Permit == Param("DefaultPermitOutdatedVersions", 1, <<>>)

\* 7 bytes of core, ContentName (4 bytes), MimeType (2 bytes).
HeaderC == ToBytes(HeaderBits(2, 2, 2, <<NameC, Mime>>))
\* 7 bytes of core, the unregistered parameter (2 bytes), ContentName (4 bytes).
HeaderU == ToBytes(HeaderBits(1, 2, 3, <<Permit, NameB>>))
DirectoryU ==
    ToBytes(DirectoryBits(<<[tid |-> 9, type |-> <<2, 3>>, params |-> <<Permit, NameB>>],
                            [tid |-> 2, type |-> <<2, 1>>, params |-> <<NameA, Permit, Gzip>>]>>))

W2  == Datagroup(2, 3, 0, TRUE, HeaderC)
\* HeaderC cut between its two parameters.
S2a == Datagroup(2, 3, 0, FALSE, SubSeq(HeaderC, 1, 11))
S2b == Datagroup(2, 3, 1, TRUE, SubSeq(HeaderC, 12, 13))
U9  == Datagroup(9, 3, 0, TRUE, HeaderU)
\* HeaderU cut after the first byte of its ContentName.
T9a == Datagroup(9, 3, 0, FALSE, SubSeq(HeaderU, 1, 10))
T9b == Datagroup(9, 3, 1, TRUE, SubSeq(HeaderU, 11, 13))
D4u == Datagroup(4, 6, 0, TRUE, DirectoryU)

UniverseSegmented == {W2, S2a, S2b, B2a, B2b, U9, T9a, T9b, B9, D4u}

NextSegmented ==
    \/ \E d \in UniverseSegmented : Ingest(d)
    \/ ExamineSkip
    \/ ExamineYield
    \/ ExamineRaise
    \/ PullAfterRaise

SpecSegmented == Init /\ [][NextSegmented]_vars

-----------------------------------------------------------------------------
(* The parameter codec on its own: a parameter is built, encode() is       *)
(* called on it, and HeaderParameter.from_bits reads the bits back.  For   *)
(* payloads too long to write out, the preamble encode() writes is taken   *)
(* for the payload length alone (it reads nothing else of the payload).    *)

Names == {<<>>, <<65>>, <<65, 66, 67>>, <<84, 69, 83, 84>>}
LongName == [k \in 1..128 |-> 97]
Timepoints == {None, <<2010, 8, 11, 12, 34, 0, 0>>, <<2010, 8, 11, 12, 34, 11, 678000>>,
               <<2010, 8, 11, 0, 0, 0, 0>>, <<2010, 8, 11, 9, 30, 0, 0>>}
Offsets == {0, 300, 7200, 7620, 90000, 200000, 5529600}

CodecParams ==
    {Param("ContentName", cs, n) : cs \in {0, 1, 2, 3, 4, 15}, n \in Names}
    \cup {Param("MimeType", 0, n) : n \in Names \cup {LongName}}
    \cup {Param("Compression", t, <<>>) : t \in {0, 1}}
    \cup {Param("Priority", pr, <<>>) : pr \in {0, 4, 255}}
    \cup {Param("RelativeExpiration", o, <<>>) : o \in Offsets}
    \cup {Param("AbsoluteExpiration", 0, tp) : tp \in Timepoints}
    \cup {Param("DefaultPermitOutdatedVersions", b, <<>>) : b \in {0, 1}}
    \cup {Param("DefaultRelativeExpiration", o, <<>>) : o \in Offsets}
    \cup {Param("DefaultAbsoluteExpiration", 0, tp) : tp \in Timepoints}
    \cup {Param("SortedHeaderInformation", 0, <<>>)}

\* Payload lengths in bytes: a MimeType of that many characters, and the
\* payloads of the directory parameter classes.
HeaderLengths == {0, 1, 2, 3, 4, 5, 127, 128, 32767, 32771}
DirectoryLengths == {0, 1, 4, 6}

InitCodec ==
    /\ cache = <<>>
    /\ directory = NoDirectory
    /\ emitted = <<>>
    /\ status = "running"
    /\ pc = "pull"
    /\ keys = <<>>
    /\ fed = <<>>
    /\ burst = <<>>
    /\ object = NoObject
    /\ \/ \E p \in CodecParams : codec = [NoCodec EXCEPT !.stage = "new", !.param = p]
       \/ \E L \in HeaderLengths :
             codec = [NoCodec EXCEPT !.stage = "payload", !.len = L,
                                     !.param = Param("MimeType", 0, <<>>)]
       \/ \E L \in DirectoryLengths :
             codec = [NoCodec EXCEPT !.stage = "payload", !.len = L,
                                     !.param = Param("DirectoryParameter", 9, <<>>)]

\* param.encode()
CodecEncode ==
    /\ codec.stage = "new"
    /\ LET r == encode(codec.param)
       IN  codec' = [codec EXCEPT !.stage = "encoded", !.bits = r.bits, !.raised = r.raised]
    /\ UNCHANGED <<cache, directory, emitted, status, pc, keys, fed, burst, object>>

\* HeaderParameter.from_bits(bits) on what encode() returned.
CodecDecode ==
    /\ codec.stage = "encoded"
    /\ ~codec.raised
    /\ codec.param.kind \in HeaderKinds
    /\ codec' = [codec EXCEPT !.stage = "decoded", !.out = from_bits(codec.bits, 0)]
    /\ UNCHANGED <<cache, directory, emitted, status, pc, keys, fed, burst, object>>

\* The preamble part of encode() (lines 229-251, 446-467) for a payload of
\* codec.len bytes; encode() has no raise statement.
CodecFrame ==
    /\ codec.stage = "payload"
    /\ codec' = [codec EXCEPT !.stage = "framed", !.raised = FALSE,
                              !.bits = IF codec.param.kind \in HeaderKinds
                                       THEN HeaderPreamble(ParamId(codec.param), codec.len)
                                       ELSE DirectoryPreamble(ParamId(codec.param), codec.len)]
    /\ UNCHANGED <<cache, directory, emitted, status, pc, keys, fed, burst, object>>

NextCodec ==
    \/ CodecEncode
    \/ CodecDecode
    \/ CodecFrame

SpecCodec == InitCodec /\ [][NextCodec]_vars

-----------------------------------------------------------------------------
(* The time codecs on their own: encode_relative_time is called on a       *)
(* timedelta, encode_absolute_time on a datetime or None.                  *)

Minute == 60
Hour == 3600
Day == 86400

\* timedelta arguments, in seconds: every whole minute up to 130 minutes,
\* then half hours, hours and days around the branch limits of lines 180-199.
Durations ==
    {m * Minute : m \in 0..130}
    \cup {m * Minute : m \in {150, 1439, 1440, 1441, 1470, 1500, 1889, 1890, 1891, 1920}}
    \cup {h * Hour : h \in {32, 48, 50, 100, 125, 126, 127, 128}}
    \cup {d * Day : d \in {6, 7, 10, 62, 63, 64, 65, 100}}
    \cup {63 * Day + Hour}

\* datetime arguments (naive or UTC), and None.
Instants ==
    {None}
    \cup {<<2010, 8, 11, h, mi, sec, us>> :
            h \in {0, 9, 11, 12, 13, 23}, mi \in {0, 34}, sec \in {0, 11}, us \in {0, 678000}}
    \cup {<<y, mo, d, 12, 34, 0, 0>> :
            y \in {1999, 2000, 2024}, mo \in {1, 2, 3, 12}, d \in {1, 28}}

InitTime ==
    /\ cache = <<>>
    /\ directory = NoDirectory
    /\ emitted = <<>>
    /\ status = "running"
    /\ pc = "pull"
    /\ keys = <<>>
    /\ fed = <<>>
    /\ burst = <<>>
    /\ object = NoObject
    /\ \/ \E d \in Durations : codec = [NoCodec EXCEPT !.stage = "offset", !.offset = d]
       \/ \E t \in Instants : codec = [NoCodec EXCEPT !.stage = "timepoint", !.timepoint = t]

\* encode_relative_time(offset)
TimeEncodeRelative ==
    /\ codec.stage = "offset"
    /\ LET r == encode_relative_time(codec.offset)
       IN  codec' = [codec EXCEPT !.stage = "relative", !.bits = r.bits, !.raised = r.raised]
    /\ UNCHANGED <<cache, directory, emitted, status, pc, keys, fed, burst, object>>

\* encode_absolute_time(timepoint)
TimeEncodeAbsolute ==
    /\ codec.stage = "timepoint"
    /\ codec' = [codec EXCEPT !.stage = "absolute",
                              !.bits = encode_absolute_time(codec.timepoint)]
    /\ UNCHANGED <<cache, directory, emitted, status, pc, keys, fed, burst, object>>

NextTime ==
    \/ TimeEncodeRelative
    \/ TimeEncodeAbsolute

SpecTime == InitTime /\ [][NextTime]_vars

-----------------------------------------------------------------------------
(* A MotObject on its own: the caller constructs it with a name and calls  *)
(* add_parameter and remove_parameter on it.                               *)

\* Arguments of add_parameter: HeaderParameter instances, and
\* DirectoryParameter instances, which are not HeaderParameters.
ObjectParams ==
    {Param("ContentName", 4, n) : n \in {<<65>>, <<66>>}}
    \cup {Param("MimeType", 0, n) : n \in {<<65>>, <<66>>}}
    \cup {Param("Compression", t, <<>>) : t \in {0, 1}}
    \cup {Param("Priority", pr, <<>>) : pr \in {0, 4}}
    \cup {Param("RelativeExpiration", 300, <<>>)}
    \cup {Param("SortedHeaderInformation", 0, <<>>)}

\* MotObject(name, body, type, transport_id) with name a string: lines 70-76.
InitObject ==
    /\ cache = <<>>
    /\ directory = NoDirectory
    /\ emitted = <<>>
    /\ status = "running"
    /\ pc = "pull"
    /\ keys = <<>>
    /\ fed = <<>>
    /\ burst = <<>>
    /\ codec = NoCodec
    /\ \E n \in {<<65>>, <<66>>} :
          object = MotObject(<<Param("ContentName", 4, n)>>, <<16>>, <<2, 1>>, 7)

\* add_parameter(param): lines 78-81; a parameter that is no HeaderParameter
\* is refused with ValueError.
add_parameter(obj, param) ==
    IF param.kind \notin HeaderKinds THEN obj
    ELSE [obj EXCEPT !.parameters =
             {q \in obj.parameters : q.kind # param.kind} \cup {param}]

\* remove_parameter(clazz): dict.pop, KeyError when the class has no entry.
remove_parameter(obj, clazz) ==
    [obj EXCEPT !.parameters = {q \in obj.parameters : q.kind # clazz}]

AddParameter(param) ==
    /\ object # NoObject
    /\ object' = add_parameter(object, param)
    /\ UNCHANGED <<cache, directory, emitted, status, pc, keys, fed, burst, codec>>

RemoveParameter(clazz) ==
    /\ object # NoObject
    /\ object' = remove_parameter(object, clazz)
    /\ UNCHANGED <<cache, directory, emitted, status, pc, keys, fed, burst, codec>>

NextObject ==
    \/ \E param \in ObjectParams : AddParameter(param)
    \/ \E clazz \in HeaderKinds : RemoveParameter(clazz)

SpecObject == InitObject /\ [][NextObject]_vars

-----------------------------------------------------------------------------
(* decode_objects as a function of the whole input: what the generator has *)
(* yielded, and how it has ended, once the list `data` is used up.         *)

RunState(c, dir, em, st) == [cache |-> c, directory |-> dir, emitted |-> em, status |-> st]

\* The `for t in cache.keys()` loop (lines 757-761) over the keys ks.
RECURSIVE Scan(_, _)
Scan(st, ks) ==
    IF ks = <<>> \/ st.status # "running" THEN st
    ELSE IF ~is_complete(Head(ks), st.cache) THEN Scan(st, Tail(ks))
    ELSE LET r == compile_object(Head(ks), st.cache, st.directory)
         IN  IF r.raised
             THEN RunState(st.cache, r.directory, st.emitted, r.error)
             ELSE Scan(RunState(r.cache, r.directory, Append(st.emitted, r.object),
                                st.status), Tail(ks))

RECURSIVE decode_objects(_)
decode_objects(data) ==
    IF data = <<>> THEN RunState(<<>>, NoDirectory, <<>>, "running")
    ELSE LET st == decode_objects(SubSeq(data, 1, Len(data) - 1))
             c  == Store(st.cache, data[Len(data)])
         IN  IF st.status # "running" THEN st
             ELSE Scan(RunState(c, st.directory, st.emitted, st.status), cache_keys(c))

\* The generator is between two datagroups, or has ended.
AtRest == pc \in {"pull", "raised"}

-----------------------------------------------------------------------------
(* Claims.                                                                 *)

Count(seq, x) == Cardinality({j \in 1..Len(seq) : seq[j] = x})
SameBag(s1, s2) ==
    /\ Len(s1) = Len(s2)
    /\ \A j \in 1..Len(s1) : Count(s1, s1[j]) = Count(s2, s1[j])

\* C1: reassembly is order-independent: whatever sequence of datagroups has
\* been fed, every permutation of it makes decode_objects emit the same
\* multiset of objects (transport id, content type, body, parameters).
C1_OrderIndependent ==
    AtRest =>
        \A f \in Permutations(1..Len(fed)) :
            SameBag(decode_objects([j \in 1..Len(fed) |-> fed[f[j]]]).emitted, emitted)

\* C4: duplicate tolerance: feeding the sequence fed so far followed by any
\* one of its elements again emits exactly the objects the sequence alone emits.
C4_DuplicateTolerant ==
    AtRest =>
        \A j \in 1..Len(fed) : decode_objects(Append(fed, fed[j])).emitted = emitted

\* The datagroups of one type held under key t.
Held(c, t, type) == {c[t][j] : j \in {j \in 1..Len(c[t]) : c[t][j].type = type}}

\* Segment indices exactly 0..k, each once, the index-k one flagged last.
WholeRun(D) ==
    /\ D # {}
    /\ \E k \in 0..Cardinality(D) - 1 :
          /\ {d.seg : d \in D} = 0..k
          /\ Cardinality(D) = k + 1
          /\ \A d \in D : d.seg = k => d.last

BodyComplete(c, t) == t \in DOMAIN c /\ WholeRun(Held(c, t, 4))
MetadataAvailable(c, t) ==
    \/ t \in DOMAIN c /\ WholeRun(Held(c, t, 3))
    \/ \E k \in DOMAIN c : WholeRun(Held(c, k, 6))

\* The object yielded by this step, when the step yields one.
Yields == Len(emitted') = Len(emitted) + 1
Yielded == emitted'[Len(emitted')]

\* C2: an object is emitted for transport id t (0 included) only when
\* Cache[t] itself holds a whole body (type-4 segments 0..k, the last one
\* flagged last) and header metadata is available: a whole type-3 run in
\* Cache[t], or a whole type-6 run under some key.
C2_EmitsOnlyComplete ==
    [][Yields => (BodyComplete(cache, Yielded.transport_id)
                  /\ MetadataAvailable(cache, Yielded.transport_id))]_vars

\* C3: single emission: each time the metadata and the whole body of t have
\* been received the object for t is emitted, exactly once: the emission
\* removes the cache entry of t, and no ingest step ends with an entry that
\* holds a whole body with its metadata available and was not emitted.
C3_SingleEmission ==
    [][/\ Yields => Yielded.transport_id \notin DOMAIN cache'
       /\ pc' = "pull" =>
            \A t \in DOMAIN cache' :
                ~(BodyComplete(cache', t) /\ MetadataAvailable(cache', t))]_vars

\* The data of a set of segments, joined in ascending segment index.
RECURSIVE InSegmentOrder(_)
InSegmentOrder(D) ==
    IF D = {} THEN <<>>
    ELSE LET d == CHOOSE x \in D : \A y \in D : x.seg <= y.seg
         IN  d.data \o InSegmentOrder(D \ {d})

\* C5: the body of every emitted object is the data of the type-4 datagroups
\* of its transport id joined in ascending segment index, whatever order
\* they arrived in.
C5_BodyInSegmentOrder ==
    [][Yields => Yielded.body = InSegmentOrder(Held(cache, Yielded.transport_id, 4))]_vars

\* C5 witness: the object of transport id 2 has been emitted with body B0 B1
\* although body segment 1 was delivered before body segment 0.
C5_Witness ==
    /\ \E j \in 1..Len(emitted) :
          emitted[j].transport_id = 2 /\ emitted[j].body = B2a.data \o B2b.data
    /\ \E a, b \in 1..Len(fed) : a < b /\ fed[a] = B2b /\ fed[b] = B2a
    /\ \A a, b \in 1..Len(fed) : (fed[a] = B2a /\ fed[b] = B2b) => b < a

\* C6 as stated: the objects emitted in one ingest step come in ascending
\* transport id order.
C6_AscendingTies ==
    \A a, b \in 1..Len(burst) : a < b => burst[a] < burst[b]

\* C7: when the complete object for t has no ContentName, compilation fails
\* with the missing-name error and the cache entry for t is removed all the same.
C7_MissingNameRemovesEntry ==
    status = "MissingName" => Head(keys) \notin DOMAIN cache

\* C8: after the parse error of a malformed header decode_objects goes on
\* ingesting the datagroups that follow.
C8_GoesOnAfterHeaderError ==
    (status = "HeaderError" /\ Len(fed) < MaxFeed) => ENABLED (\E d \in Universe : Ingest(d))

\* The payload of a parameter, in bytes.
PayloadLength(p) == ByteLen(encode_data(p).bits)

\* C9: parameter round trip: for a header parameter with a valid payload,
\* from_bits(encode()) returns a parameter of the same variant with the same
\* field values, and a size equal to the encoded length in bytes.
C9_RoundTrip ==
    (codec.stage = "decoded" /\ PayloadLength(codec.param) <= 32767) =>
        /\ codec.out.tag = "ok"
        /\ codec.out.param = codec.param
        /\ codec.out.size * 8 = Len(codec.bits)

\* The preamble the framing table gives a payload of L bytes.
TablePreamble(id, L) ==
    CASE L = 0 -> int_to_bitarray(0, 2) \o int_to_bitarray(id, 6)
      [] L = 1 -> int_to_bitarray(1, 2) \o int_to_bitarray(id, 6)
      [] L = 4 -> int_to_bitarray(2, 2) \o int_to_bitarray(id, 6)
      [] L \notin {0, 1, 4} /\ L <= 127 ->
            int_to_bitarray(3, 2) \o int_to_bitarray(id, 6) \o <<0>> \o int_to_bitarray(L, 7)
      [] OTHER ->
            int_to_bitarray(3, 2) \o int_to_bitarray(id, 6) \o <<1>> \o int_to_bitarray(L, 15)

\* C10: parameter framing: encode() of a parameter whose payload is L bytes
\* returns the table's preamble for L followed by exactly L payload bytes,
\* and is rejected with an error when L is above 32770.
C10_Framing ==
    /\ (codec.stage = "encoded" /\ ~encode_data(codec.param).raised) =>
          LET L == PayloadLength(codec.param)
              preamble == TablePreamble(ParamId(codec.param), L)
          IN  /\ ~codec.raised
              /\ Len(codec.bits) = Len(preamble) + 8 * L
              /\ SubSeq(codec.bits, 1, Len(preamble)) = preamble
              /\ SubSeq(codec.bits, Len(preamble) + 1, Len(codec.bits))
                     = encode_data(codec.param).bits
    /\ codec.stage = "framed" =>
          IF codec.len > 32770 THEN codec.raised
          ELSE ~codec.raised /\ codec.bits = TablePreamble(ParamId(codec.param), codec.len)

\* The state machine and the function of the whole input agree.
RunAgrees == AtRest => decode_objects(fed) = RunState(cache, directory, emitted, status)

-----------------------------------------------------------------------------
(* Relative and absolute time.                                             *)

\* The unit of a granularity tag, in seconds, and the longest duration of
\* its range (63 units).
Unit(g) == CASE g = 0 -> 2 * Minute [] g = 1 -> 30 * Minute [] g = 2 -> 2 * Hour [] OTHER -> Day
RangeMax(g) == 63 * Unit(g)
SmallestGranularity(d) == CHOOSE g \in 0..3 : d <= RangeMax(g) /\ \A h \in 0..(g - 1) : d > RangeMax(h)

\* C11: for a duration d of 0 to 63 days encode_relative_time returns one
\* byte, a 2-bit tag and a 6-bit interval, and the tag is the smallest
\* granularity whose range contains d; a longer duration is rejected.
C11_SmallestGranularity ==
    codec.stage = "relative" =>
        IF codec.offset <= 63 * Day
        THEN /\ ~codec.raised
             /\ Len(codec.bits) = 8
             /\ bitarray_to_int(Slice(codec.bits, 0, 2)) = SmallestGranularity(codec.offset)
        ELSE codec.raised

\* C19: the interval written for an accepted duration d is d divided by the
\* unit of the granularity written, rounded down, and fits in 6 bits.
C19_IntervalRoundedDown ==
    (codec.stage = "relative" /\ ~codec.raised) =>
        LET unit     == Unit(bitarray_to_int(Slice(codec.bits, 0, 2)))
            interval == bitarray_to_int(Slice(codec.bits, 2, Len(codec.bits)))
        IN  /\ Len(codec.bits) = 8
            /\ interval * unit <= codec.offset
            /\ codec.offset < (interval + 1) * unit

\* The number of days from 1858-11-17 to the calendar date year-month-day.
DayCount(year, month, day) ==
    LET y   == IF month <= 2 THEN year - 1 ELSE year
        era == y \div 400
        yoe == y - era * 400
        doy == ((153 * (IF month > 2 THEN month - 3 ELSE month + 9) + 2) \div 5) + day - 1
        doe == yoe * 365 + (yoe \div 4) - (yoe \div 100) + doy
    IN  era * 146097 + doe - 719468 + 40587

\* C12: encode_absolute_time returns 32 zero bits for None; otherwise 6 bytes
\* when second > 0 and 4 bytes when not, laid out as validity bit 1, the
\* 17-bit day count of the date from 1858-11-17, two zero bits, the UTC
\* flag, hour, minute and, in the long form, second and millisecond.
C12_AbsoluteLayout ==
    codec.stage = "absolute" =>
        LET t == codec.timepoint
        IN  IF t = None THEN codec.bits = [k \in 1..32 |-> 0]
            ELSE /\ Len(codec.bits) = (IF t[6] > 0 THEN 48 ELSE 32)
                 /\ codec.bits =
                      <<1>> \o int_to_bitarray(DayCount(t[1], t[2], t[3]), 17) \o <<0, 0>>
                      \o <<IF t[6] > 0 THEN 1 ELSE 0>>
                      \o int_to_bitarray(t[4], 5) \o int_to_bitarray(t[5], 6)
                      \o (IF t[6] > 0
                          THEN int_to_bitarray(t[6], 6) \o int_to_bitarray(t[7] \div 1000, 10)
                          ELSE <<>>)

-----------------------------------------------------------------------------
(* MotObject.                                                              *)

\* C13: a MotObject carries exactly one ContentName and at most one
\* parameter of each kind after any add_parameter and remove_parameter calls.
C13_ExactlyOneName ==
    object # NoObject =>
        /\ Cardinality({q \in object.parameters : q.kind = "ContentName"}) = 1
        /\ \A q, r \in object.parameters : q.kind = r.kind => q = r

-----------------------------------------------------------------------------
(* The ingest step and the cache.                                          *)

\* C14: greedy emission: when decode_objects is about to pull the next
\* datagroup, no transport id left in the cache has a whole body with its
\* metadata available; in particular, with a whole directory in the cache,
\* no transport id with a whole body is left.
C14_GreedyEmission ==
    pc = "pull" =>
        /\ \A t \in DOMAIN cache : ~(BodyComplete(cache, t) /\ MetadataAvailable(cache, t))
        /\ (\E k \in DOMAIN cache : WholeRun(Held(cache, k, 6)))
              => \A t \in DOMAIN cache : ~BodyComplete(cache, t)

\* C15: no two datagroups of Cache[t] have the same (type, segment_index),
\* and the list is sorted by (type, segment_index).
C15_NoDuplicateSegment ==
    \A t \in DOMAIN cache :
        \A i, j \in 1..Len(cache[t]) :
            i < j => /\ <<cache[t][i].type, cache[t][i].seg>> # <<cache[t][j].type, cache[t][j].seg>>
                     /\ KeyLeq(cache[t][i], cache[t][j])

-----------------------------------------------------------------------------
(* Headers: directory mode, several segments, unregistered parameters.     *)

\* The key examined by this step, and the table cache.directory holds or,
\* when it holds none yet, the one decoded from the directory data cached.
Examined == Head(keys)
DirectoryTable ==
    IF DirectoryFalsy(directory)
    THEN decode_directory_object(DirectoryData(cache_keys(cache), cache)).headers
    ELSE directory.headers

\* No two of the datagroups share a segment index.
DistinctSegments(D) == \A d, e \in D : d.seg = e.seg => d = e

\* C16: an object emitted for a transport id whose own type-3 run (no
\* segment index held twice) is not whole has the content type and the
\* parameters the directory table holds for it.
C16_DirectoryMetadata ==
    [][(/\ Yields
        /\ DistinctSegments(Held(cache, Yielded.transport_id, 3))
        /\ ~WholeRun(Held(cache, Yielded.transport_id, 3))) =>
          /\ Yielded.transport_id \in DOMAIN DirectoryTable
          /\ Yielded.type = DirectoryTable[Yielded.transport_id].content_type
          /\ Yielded.parameters = ParameterDict(DirectoryTable[Yielded.transport_id].params)]_vars

\* The header of t parsed once: the data of its type-3 datagroups joined in
\* segment order and handed to the header loop as one segment.
ParsedOnce(t) ==
    CompileHeader(<<Datagroup(t, 3, 0, TRUE, InSegmentOrder(Held(cache, t, 3)))>>,
                  <<>>, <<>>, <<0, 0>>)
ContentNames(params) == {params[j] : j \in {j \in 1..Len(params) : params[j].kind = "ContentName"}}

\* C17: when the key examined is complete with a whole type-3 run whose
\* data parsed once gives a header with a name, the object is emitted with
\* the content type and the parameters of that parse, in however many
\* segments the header came.
C17_SegmentedHeader ==
    [][(/\ pc = "scan"
        /\ is_complete(Examined, cache)
        /\ WholeRun(Held(cache, Examined, 3))
        /\ ~ParsedOnce(Examined).raised
        /\ ContentNames(ParsedOnce(Examined).params) # {}) =>
          /\ Yields
          /\ Yielded.transport_id = Examined
          /\ Yielded.type = ParsedOnce(Examined).content_type
          /\ Yielded.parameters = ParameterDict(ParsedOnce(Examined).params)]_vars

\* The parameters of t's header with each unregistered parameter stepped
\* over by its own length and nothing else left out: from the one type-3
\* datagroup of t when it has one, else from t's entry of the directory
\* data cached (entries start at bit i; an entry is 16 bits of transport id,
\* 56 bits of core and parameters up to its header size).
RECURSIVE EntryParams(_, _, _)
EntryParams(bits, i, t) ==
    IF ~(i < Len(bits)) THEN [raised |-> TRUE, params |-> <<>>]
    ELSE IF bitarray_to_int(Slice(bits, i, i + 16)) = t
    THEN HeaderParams(Slice(bits, 0, i + 16 + (bitarray_to_int(Slice(bits, i + 44, i + 57)) * 8)),
                      i + 72, <<>>)
    ELSE EntryParams(bits, i + 16 + (bitarray_to_int(Slice(bits, i + 44, i + 57)) * 8), t)

OnlyUnknownSkipped(t) ==
    IF Held(cache, t, 3) # {}
    THEN HeaderParams(FromBytes(InSegmentOrder(Held(cache, t, 3))), 56, <<>>)
    ELSE EntryParams(FromBytes(DirectoryData(cache_keys(cache), cache)), 104, t)

\* C18: when the key examined is complete and its header (in one type-3
\* datagroup, or else its directory entry) has a name once the unregistered
\* parameters alone are stepped over, the object is emitted with every
\* registered parameter of that header, those after an unregistered one
\* included.
C18_OnlyUnknownSkipped ==
    [][(/\ pc = "scan"
        /\ is_complete(Examined, cache)
        /\ Held(cache, Examined, 3) # {} =>
              Cardinality(Held(cache, Examined, 3)) = 1 /\ WholeRun(Held(cache, Examined, 3))
        /\ ~OnlyUnknownSkipped(Examined).raised
        /\ ContentNames(OnlyUnknownSkipped(Examined).params) # {}) =>
          /\ Yields
          /\ Yielded.transport_id = Examined
          /\ Yielded.parameters = ParameterDict(OnlyUnknownSkipped(Examined).params)]_vars

=============================================================================
